---- MODULE Spec2Model ----
(***************************************************************************)
(* Projexa AI code-summary service (src/main.py): the /analyze streaming   *)
(* handler and its StreamCleaner.  Text is a sequence of one-character     *)
(* strings; a stream item is a sequence of strings.                        *)
(***************************************************************************)
EXTENDS Integers, Sequences, FiniteSets, TLC

VARIABLES
    in_fence, word_budget, done,   \* the StreamCleaner of the request
    frags, outs,                   \* fragments delivered; results of the clean calls
    pc, req, http, chat, emitted,  \* the /analyze request and its response
    start, now, raised,            \* wall clock; the exception caught, if any
    text, passes,                  \* markdown stripping applied repeatedly
    reqs, cleaners                 \* concurrent requests and their cleaners

cleanerVars == <<in_fence, word_budget, done>>
historyVars == <<frags, outs>>
handlerVars == <<pc, req, http, chat, emitted, start, now, raised>>
stripVars == <<text, passes>>
pairVars == <<reqs, cleaners>>
vars == <<in_fence, word_budget, done, frags, outs, pc, req, http, chat,
          emitted, start, now, raised, text, passes, reqs, cleaners>>

(***************************************************************************)
(* Configuration.  The three limits are read from the environment          *)
(* (PROJEXA_MAX_BYTES, PROJEXA_MAX_WORDS_OUT, PROJEXA_STREAM_TIMEOUT_S);   *)
(* the model runs the service configured with small limits.                *)
(***************************************************************************)
DISPLAY_NAME == "projexa"
BACKEND_MODEL == "llama3.2:3b"
APP_VERSION == "1.1.0"
MAX_BYTES == 2
MAX_WORDS_OUT == 2
STREAM_TIMEOUT_S == 2
\* Generation defaults; the three fractions are written in hundredths.
DEFAULT_OPTIONS ==
    [temperature |-> 20, top_p |-> 90, repeat_penalty |-> 105, num_predict |-> 512]
NUM_PREDICT_MAX == 1024

\* Bounds of the model.
MaxCalls == 2        \* clean calls on one StreamCleaner
MaxTotalLen == 7     \* characters over all fragments given to one cleaner
MaxLineLen == 5      \* characters of a text of several lines
MaxStripLen == 3     \* length of a text given to the stripping rules
MaxDataLen == 2      \* code points of a string payload
MaxChunks == 3       \* chunks the generation stream delivers
MaxTime == 4         \* clock ticks after the request's start
MaxTokenCalls == 3   \* clean calls on whole tokens
MaxPairChunks == 2   \* chunks of each of two concurrent requests
MaxPairTime == 3     \* clock ticks while two concurrent requests are served

\* The backquote character (U+0060).  SANY cannot lex a backquote inside a
\* string literal, so the model writes the character as "'"; no other
\* character of the model is written that way.
BQ == "'"
_CODE_FENCE_TOK == <<BQ, BQ, BQ>>
Space == {" ", "\n"}
Digit == {"0", "1", "2", "3", "4", "5", "6", "7", "8", "9"}
Bullet == {"-", "*", "+"}

TextsUpTo(A, n) == UNION {[1..k -> A] : k \in 0..n}

Min(a, b) == IF a < b THEN a ELSE b

\* First index q >= p whose character is outside S (Len(t)+1 if none): the
\* end of a greedy run of a character class.
SpanEnd(t, p, S) ==
    CHOOSE q \in p..(Len(t) + 1) :
        /\ (q = Len(t) + 1 \/ t[q] \notin S)
        /\ \A m \in p..(q - 1) : t[m] \in S

\* First index q >= p whose character is in S (Len(t)+1 if none).
SpanEndNot(t, p, S) ==
    CHOOSE q \in p..(Len(t) + 1) :
        /\ (q = Len(t) + 1 \/ t[q] \in S)
        /\ \A m \in p..(q - 1) : t[m] \notin S

\* text.startswith(tok, i), with i counted from 1.
StartsWith(t, tok, i) ==
    /\ i + Len(tok) - 1 <= Len(t)
    /\ \A k \in 1..Len(tok) : t[i + k - 1] = tok[k]

\* The fence loop of clean: returns the retained characters and in_fence.
RECURSIVE FenceScan(_, _, _, _)
FenceScan(t, i, fence, out) ==
    IF i > Len(t) THEN [out |-> out, in_fence |-> fence]
    ELSE IF StartsWith(t, _CODE_FENCE_TOK, i)
         THEN FenceScan(t, i + Len(_CODE_FENCE_TOK), ~fence, out)
    ELSE FenceScan(t, i + 1, fence, IF fence THEN out ELSE Append(out, t[i]))

\* _LINKS_RE matched at i: <<index of "]", index of ")">>, or <<0, 0>>.
\* [^\]]+ stops at the first "]" and [^)]+ at the first ")"; each needs at
\* least one character.
LinkMatch(t, i) ==
    LET j == SpanEndNot(t, i + 1, {"]"})
        k == SpanEndNot(t, j + 2, {")"})
    IN IF /\ i <= Len(t) /\ t[i] = "["
          /\ j >= i + 2 /\ j + 1 <= Len(t) /\ t[j + 1] = "("
          /\ k >= j + 3 /\ k <= Len(t)
       THEN <<j, k>> ELSE <<0, 0>>

\* _LINKS_RE.sub(r"\1", text)
RECURSIVE SubLinksFrom(_, _, _)
SubLinksFrom(t, i, out) ==
    IF i > Len(t) THEN out
    ELSE LET m == LinkMatch(t, i)
         IN IF m[1] > 0
            THEN SubLinksFrom(t, m[2] + 1, out \o SubSeq(t, i + 1, m[1] - 1))
            ELSE SubLinksFrom(t, i + 1, Append(out, t[i]))

SubLinks(t) == SubLinksFrom(t, 1, <<>>)

\* ^ under re.MULTILINE: at the start of the text or just after a newline.
AtLineStart(t, p) == p = 1 \/ t[p - 1] = "\n"

\* _HEADING_RE matched at p: the index after the match, or 0.
HeadingMatch(t, p) ==
    IF AtLineStart(t, p) /\ p <= Len(t) /\ t[p] = "#"
    THEN SpanEnd(t, Min(SpanEnd(t, p, {"#"}), p + 6), Space)
    ELSE 0

\* _HEADING_RE.sub("", text)
RECURSIVE SubHeadingFrom(_, _, _)
SubHeadingFrom(t, p, out) ==
    IF p > Len(t) THEN out
    ELSE LET e == HeadingMatch(t, p)
         IN IF e > 0 THEN SubHeadingFrom(t, e, out)
            ELSE SubHeadingFrom(t, p + 1, Append(out, t[p]))

SubHeading(t) == SubHeadingFrom(t, 1, <<>>)

\* _LIST_RE matched at p: the index after the match, or 0.
ListMatch(t, p) ==
    IF ~AtLineStart(t, p) THEN 0
    ELSE LET s == SpanEnd(t, p, Space)
             d == SpanEnd(t, s, Digit)
             m == IF s <= Len(t) /\ t[s] \in Bullet THEN s + 1
                  ELSE IF d > s /\ d <= Len(t) /\ t[d] = "." THEN d + 1
                  ELSE 0
         IN IF m > 0 /\ SpanEnd(t, m, Space) > m
            THEN SpanEnd(t, m, Space) ELSE 0

\* _LIST_RE.sub("", text)
RECURSIVE SubListFrom(_, _, _)
SubListFrom(t, p, out) ==
    IF p > Len(t) THEN out
    ELSE LET e == ListMatch(t, p)
         IN IF e > 0 THEN SubListFrom(t, e, out)
            ELSE SubListFrom(t, p + 1, Append(out, t[p]))

SubList(t) == SubListFrom(t, 1, <<>>)

\* The three rewrites of clean, in the order the code applies them.
Strip(t) == SubList(SubHeading(SubLinks(t)))

\* text.split()
RECURSIVE SplitFrom(_, _, _)
SplitFrom(t, p, words) ==
    LET s == SpanEnd(t, p, Space)
        e == SpanEndNot(t, s, Space)
    IN IF s > Len(t) THEN words
       ELSE SplitFrom(t, e, Append(words, SubSeq(t, s, e - 1)))

Split(t) == SplitFrom(t, 1, <<>>)

\* " ".join(words)
RECURSIVE Join(_)
Join(words) ==
    IF words = <<>> THEN <<>>
    ELSE IF Len(words) = 1 THEN words[1]
    ELSE words[1] \o <<" ">> \o Join(Tail(words))

\* Faulty variant of Keep: the words are never cut to the budget.
KeepAll(words, budget) == words

\* words[: self.word_budget] when the fragment has more words than the budget
\* allows, the words themselves otherwise.
Keep(words, budget) ==
    IF Len(words) > budget THEN SubSeq(words, 1, budget) ELSE words

\* Faulty variant of FenceScan: the scan goes on at the marker's second
\* character, so markers may overlap.
RECURSIVE FenceScanOverlap(_, _, _, _)
FenceScanOverlap(t, i, fence, out) ==
    IF i > Len(t) THEN [out |-> out, in_fence |-> fence]
    ELSE IF StartsWith(t, _CODE_FENCE_TOK, i)
         THEN FenceScanOverlap(t, i + 1, ~fence, out)
    ELSE FenceScanOverlap(t, i + 1, fence,
                          IF fence THEN out ELSE Append(out, t[i]))

\* Faulty variant of ScanFragment: overlapping markers each toggle in_fence.
ScanOverlap(self, t) == FenceScanOverlap(t, 1, self.in_fence, <<>>)

\* Faulty variant of ScanFragment: in_fence is not carried into the call.
ScanFresh(self, t) == FenceScan(t, 1, FALSE, <<>>)

\* The fence loop run on one fragment, starting from the cleaner's in_fence.
ScanFragment(self, t) == FenceScan(t, 1, self.in_fence, <<>>)

\* Faulty variant of Skip: only the empty fragment is skipped.
SkipEmptyOnly(self, t) == t = <<>>

\* if not text or self.done: return ""
Skip(self, t) == t = <<>> \/ self.done

\* StreamCleaner.clean(text) on the cleaner state self: the string returned
\* and the cleaner's fields after the call.
clean(self, t) ==
    IF Skip(self, t)
    THEN [ret |-> <<>>, in_fence |-> self.in_fence,
          word_budget |-> self.word_budget, done |-> self.done]
    ELSE LET scan == ScanFragment(self, t)
             words == Split(Strip(scan.out))
             over == Len(words) > self.word_budget
             kept == Keep(words, self.word_budget)
         IN IF self.word_budget <= 0
            THEN [ret |-> <<>>, in_fence |-> scan.in_fence,
                  word_budget |-> self.word_budget, done |-> TRUE]
            ELSE IF words = <<>>
            THEN [ret |-> <<>>, in_fence |-> scan.in_fence,
                  word_budget |-> self.word_budget, done |-> FALSE]
            ELSE [ret |-> Join(kept) \o (IF over THEN <<>> ELSE <<" ">>),
                  in_fence |-> scan.in_fence,
                  word_budget |-> self.word_budget - Len(kept),
                  done |-> over]

\* StreamCleaner.__init__
NewCleaner == [in_fence |-> FALSE, word_budget |-> MAX_WORDS_OUT, done |-> FALSE]

Cleaner == [in_fence |-> in_fence, word_budget |-> word_budget, done |-> done]

RECURSIVE Concat(_)
Concat(ss) == IF ss = <<>> THEN <<>> ELSE Head(ss) \o Concat(Tail(ss))

(***************************************************************************)
(* SpecCleaner: one StreamCleaner given fragments in order.                *)
(***************************************************************************)
CleanerAlphabet == {"x", " ", BQ}

IdleHandler ==
    /\ pc = "none" /\ req = <<>> /\ http = <<>> /\ chat = <<>>
    /\ emitted = <<>> /\ start = 0 /\ now = 0 /\ raised = <<>>

IdleStrip == text = <<>> /\ passes = <<>>

IdlePair == reqs = <<>> /\ cleaners = <<>>

IdleCleaner ==
    /\ in_fence = FALSE /\ word_budget = 0 /\ done = FALSE
    /\ frags = <<>> /\ outs = <<>>

CleanerInit ==
    /\ in_fence = NewCleaner.in_fence
    /\ word_budget = NewCleaner.word_budget
    /\ done = NewCleaner.done
    /\ frags = <<>> /\ outs = <<>>
    /\ IdleHandler /\ IdleStrip /\ IdlePair

\* One call cleaner.clean(f).
CleanCall ==
    /\ Len(frags) < MaxCalls
    /\ \E f \in TextsUpTo(CleanerAlphabet, MaxTotalLen - Len(Concat(frags))) :
          LET r == clean(Cleaner, f)
          IN /\ in_fence' = r.in_fence
             /\ word_budget' = r.word_budget
             /\ done' = r.done
             /\ frags' = Append(frags, f)
             /\ outs' = Append(outs, r.ret)
    /\ UNCHANGED <<handlerVars, stripVars, pairVars>>

CleanerNext == CleanCall

SpecCleaner == CleanerInit /\ [][CleanerNext]_vars

(***************************************************************************)
(* SpecTokens: one cleaner fed a few fragments taken from a fixed set of   *)
(* tokens, long enough to exhaust the word budget and go on.               *)
(***************************************************************************)
CleanerTokens ==
    { <<>>, <<" ">>, <<"x">>, <<"x", " ", "x">>, <<"x", " ", "x", " ", "x">>,
      _CODE_FENCE_TOK, _CODE_FENCE_TOK \o <<"x">> }

\* One call cleaner.clean(f) on a token f.
CleanToken ==
    /\ Len(frags) < MaxTokenCalls
    /\ \E f \in CleanerTokens :
          LET r == clean(Cleaner, f)
          IN /\ in_fence' = r.in_fence
             /\ word_budget' = r.word_budget
             /\ done' = r.done
             /\ frags' = Append(frags, f)
             /\ outs' = Append(outs, r.ret)
    /\ UNCHANGED <<handlerVars, stripVars, pairVars>>

TokensNext == CleanToken

SpecTokens == CleanerInit /\ [][TokensNext]_vars

\* ---- Property of SpecTokens ----

\* C13: done is terminal: once it is true it is never false again, and
\* every later clean call returns the empty string and leaves in_fence and
\* word_budget as they are.
C13_DoneTerminal ==
    [][done => /\ done'
               /\ in_fence' = in_fence
               /\ word_budget' = word_budget
               /\ Len(outs') = Len(outs) + 1 => outs'[Len(outs')] = <<>>]_vars

\* The cleaner is done, outside a fence, and was then given a fence marker
\* and a word.
C13_Witness ==
    /\ Len(frags) = 3 /\ Len(outs) = 3
    /\ outs[1] = <<"x", " ", "x">>
    /\ frags[2] = _CODE_FENCE_TOK /\ frags[3] = <<"x">>
    /\ done /\ ~in_fence /\ word_budget = 0
    /\ outs[2] = <<>> /\ outs[3] = <<>>

\* ---- Properties of SpecCleaner ----

Raw == Concat(frags)

\* Number of whitespace-delimited words in the first i returned strings.
RECURSIVE WordsUpTo(_, _)
WordsUpTo(os, i) ==
    IF i = 0 THEN 0 ELSE WordsUpTo(os, i - 1) + Len(Split(os[i]))

\* C1: the words returned by all clean calls together never exceed
\* MAX_WORDS_OUT, and every clean call made after the total has reached
\* MAX_WORDS_OUT returns the empty string.
C1_WordCap ==
    /\ WordsUpTo(outs, Len(outs)) <= MAX_WORDS_OUT
    /\ \A i \in 2..Len(outs) :
          WordsUpTo(outs, i - 1) = MAX_WORDS_OUT => outs[i] = <<>>

\* A fragment carrying a word arrives after the cap was reached and is
\* answered with the empty string.
C1_Witness ==
    /\ Len(outs) = 2
    /\ WordsUpTo(outs, 1) = MAX_WORDS_OUT
    /\ BQ \notin {Raw[k] : k \in 1..Len(Raw)}
    /\ Split(frags[2]) # <<>>
    /\ outs[2] = <<>>

\* Start positions of the fence markers of a text: the non-overlapping
\* occurrences of the marker, left to right.
RECURSIVE MarkerStarts(_, _)
MarkerStarts(t, i) ==
    IF i > Len(t) THEN {}
    ELSE IF StartsWith(t, _CODE_FENCE_TOK, i)
         THEN {i} \cup MarkerStarts(t, i + Len(_CODE_FENCE_TOK))
    ELSE MarkerStarts(t, i + 1)

\* Positions of the whole stream after which one fragment ends and the next
\* begins.
Cuts == {Len(Concat(SubSeq(frags, 1, k))) : k \in 1..(Len(frags) - 1)}

\* Every marker of the stream lies wholly inside one fragment.
MarkersWhole ==
    \A m \in MarkerStarts(Raw, 1) : \A c \in Cuts : c \notin {m, m + 1}

\* Position p lies between an opening marker and its matching closing marker.
Fenced(t, p) ==
    \E o, c \in MarkerStarts(t, 1) :
        /\ o + 2 < p /\ p < c
        /\ Cardinality({m \in MarkerStarts(t, 1) : m < o}) % 2 = 0
        /\ \A m \in MarkerStarts(t, 1) : ~(o < m /\ m < c)

Chars(t) == {t[k] : k \in 1..Len(t)}

\* C3: when every marker lies wholly inside one fragment, a character found
\* only between opening and matching closing markers ("x" here) appears in no
\* string returned by clean, also when the two markers are in different
\* fragments.
C3_FencedAbsent ==
    (/\ MarkersWhole
     /\ \A p \in 1..Len(Raw) : Raw[p] = "x" => Fenced(Raw, p))
    => \A i \in 1..Len(outs) : "x" \notin Chars(outs[i])

\* A fence opened in the first fragment and closed in the second, with "x"
\* between the markers, and clean has returned for both.
C3_Witness ==
    /\ Len(frags) = 2 /\ Len(outs) = 2
    /\ MarkersWhole
    /\ \A p \in 1..Len(Raw) : Raw[p] = "x" => Fenced(Raw, p)
    /\ "x" \in Chars(frags[2])
    /\ \E m \in MarkerStarts(Raw, 1) : m + 2 <= Len(frags[1])
    /\ \E m \in MarkerStarts(Raw, 1) : m > Len(frags[1])
    /\ ~in_fence

Take(ws, n) == IF Len(ws) > n THEN SubSeq(ws, 1, n) ELSE ws

\* C8: for plain prose (no marker character; the alphabet has no other
\* markdown character) cut into fragments in any way, the words of the
\* concatenated outputs are the first MAX_WORDS_OUT words of the text.
C8_RoundTrip ==
    BQ \notin Chars(Raw)
    => Split(Concat(outs)) = Take(Split(Raw), MAX_WORDS_OUT)

(***************************************************************************)
(* Spec: one /analyze request, from the parsed body to the end of the      *)
(* response stream.                                                        *)
(***************************************************************************)

\* Decimal digits of n >= 0, most significant first.
RECURSIVE Digits(_)
Digits(n) == IF n < 10 THEN <<n>> ELSE Append(Digits(n \div 10), n % 10)

DigitChars == <<"0", "1", "2", "3", "4", "5", "6", "7", "8", "9">>

\* f"{n}" for an int: its decimal digits as characters.
Str(n) == [i \in 1..Len(Digits(n)) |-> DigitChars[Digits(n)[i] + 1]]

\* A payload is a string (a sequence of Unicode code points) or an integer.
\* _stringify returns a string as it is and str(n) for an integer: the code
\* points of its decimal digits.
_stringify(payload) ==
    IF payload.is_str THEN payload.value
    ELSE [i \in 1..Len(Digits(payload.value)) |-> 48 + Digits(payload.value)[i]]

\* Number of bytes of one code point (a Unicode scalar value) in UTF-8.
Utf8Len(cp) ==
    IF cp < 128 THEN 1 ELSE IF cp < 2048 THEN 2 ELSE IF cp < 65536 THEN 3 ELSE 4

\* Number of bytes of a string in UTF-8.
RECURSIVE ByteSize(_)
ByteSize(raw) ==
    IF raw = <<>> THEN 0 ELSE Utf8Len(Head(raw)) + ByteSize(Tail(raw))

\* Faulty variant of EncodedSize: characters are counted, not bytes.
CharCount(raw) == Len(raw)

\* byte_size = len(raw.encode("utf-8", errors="ignore"))
EncodedSize(raw) == ByteSize(raw)

\* dict.setdefault(k, d)
SetDefault(v, k, d) == IF k \in DOMAIN v THEN v ELSE v @@ (k :> d)

\* AnalyzeRequest.clamp_options, for numeric option values.
clamp_options(v) ==
    LET v1 == SetDefault(v, "temperature", DEFAULT_OPTIONS.temperature)
        v2 == SetDefault(v1, "top_p", DEFAULT_OPTIONS.top_p)
        v3 == SetDefault(v2, "repeat_penalty", DEFAULT_OPTIONS.repeat_penalty)
        v4 == SetDefault(v3, "num_predict", DEFAULT_OPTIONS.num_predict)
    IN [v4 EXCEPT !["num_predict"] = Min(v4["num_predict"], NUM_PREDICT_MAX)]

EmptyDict == [k \in {} |-> 0]

\* The options field of AnalyzeRequest.  The validator runs on a value the
\* body supplies; when the body has no options the field takes
\* default_factory's value, which pydantic does not pass to the field's
\* validators (validate_default is off).
ValidatedOptions(body) ==
    IF body.has_options THEN clamp_options(body.options) ELSE EmptyDict

\* v or {}
OrEmpty(v) == IF DOMAIN v = {} THEN EmptyDict ELSE v

\* Request bodies: the payloads and the (numeric) options a caller may send.
CodePoints == {97, 8364}
Payloads ==
    {[is_str |-> TRUE, value |-> t] : t \in TextsUpTo(CodePoints, MaxDataLen)}
    \cup {[is_str |-> FALSE, value |-> n] : n \in {7, 1234}}

OptionValues ==
    [temperature |-> {70}, top_p |-> {50}, repeat_penalty |-> {120},
     num_predict |-> {100, 2000}]

OptionDicts ==
    UNION {{o \in [K -> UNION {OptionValues[k] : k \in K}] :
               \A k \in K : o[k] \in OptionValues[k]} :
           K \in SUBSET DOMAIN OptionValues}

Bodies ==
    {[data |-> d, has_options |-> TRUE, options |-> o] :
        d \in Payloads, o \in OptionDicts}
    \cup {[data |-> d, has_options |-> FALSE, options |-> EmptyDict] : d \in Payloads}

SYSTEM_PROMPT == "You are Projexa AI, ..."

_user_prompt(code_text) ==
    <<"Summarize the following CODE file. ...\n\nCODE START\n<<<\n", code_text,
      "\n>>>\nCODE END">>

_messages(code_text) ==
    <<[role |-> "system", content |-> <<SYSTEM_PROMPT>>],
      [role |-> "user", content |-> _user_prompt(code_text)]>>

\* Stream items.
Branding == <<"MODEL: ", DISPLAY_NAME, "\n\n">>
TimeoutItem == <<"\n[STREAM ERROR] timeout\n">>
ErrorItem(msg) == <<"\n[STREAM ERROR] ">> \o msg

\* The HTTPException of an oversized payload.
PayloadTooLarge(byte_size) ==
    [status |-> 413,
     detail |-> <<"payload too large: ">> \o Str(byte_size)
                \o <<" bytes > limit ">> \o Str(MAX_BYTES) \o <<" bytes">>,
     headers |-> <<>>]

\* The StreamingResponse and the headers set on it.
Streaming ==
    [status |-> 200, detail |-> <<>>,
     headers |-> <<<<"X-Model", DISPLAY_NAME>>, <<"X-App-Version", APP_VERSION>>>>]

NoResponse == [status |-> 0, detail |-> <<>>, headers |-> <<>>]

\* str(e) of an exception of the generation client for a call made with the
\* given model: the client reports transport failures and relays the
\* server's error text, which names the model the call asked for.
ErrorMessages(model) ==
    {<<"connection refused">>, <<"model '", model, "' not found">>}

\* Tokens a chunk may carry, and chunks without a message or content.
Tokens == {<<"x">>, <<"x", " ", "x", " ", "x">>, _CODE_FENCE_TOK}

Chunks ==
    {[message |-> [content |-> t]] : t \in Tokens}
    \cup {[message |-> EmptyDict], EmptyDict}

\* chunk.get("message", {}).get("content", "")
Token(chunk) ==
    IF "message" \in DOMAIN chunk /\ "content" \in DOMAIN chunk.message
    THEN chunk.message.content ELSE <<>>

\* Faulty variant of TimedOut: the ceiling is one tick too high.
TimedOutLate(t0, t) == t - t0 > STREAM_TIMEOUT_S + 1

\* time.time() - start > STREAM_TIMEOUT_S
TimedOut(t0, t) == t - t0 > STREAM_TIMEOUT_S

\* Faulty variant of GenEntry: the generator begins at the chat call.
GenEntryChat == "chat"

\* Where the generator body begins: at the yield of the branding line.
GenEntry == "brand"

Init ==
    /\ pc = "none" /\ req = <<>> /\ http = NoResponse /\ chat = <<>>
    /\ emitted = <<>> /\ start = 0 /\ now = 0 /\ raised = <<>>
    /\ IdleCleaner /\ IdleStrip /\ IdlePair

\* FastAPI builds the AnalyzeRequest from the body (field validation).
Validate ==
    /\ pc = "none"
    /\ \E body \in Bodies :
          req' = [body |-> body, data |-> body.data,
                  options |-> ValidatedOptions(body)]
    /\ pc' = "validated"
    /\ UNCHANGED <<http, chat, emitted, start, now, raised,
                   cleanerVars, historyVars, stripVars,
                   pairVars>>

\* analyze(req, request): the size limit, then the cleaner, the start time
\* and the streaming response.
Analyze ==
    /\ pc = "validated"
    /\ LET raw == _stringify(req.data)
           byte_size == EncodedSize(raw)
       IN IF byte_size > MAX_BYTES
          THEN /\ http' = PayloadTooLarge(byte_size)
               /\ pc' = "end"
               /\ UNCHANGED <<start, cleanerVars>>
          ELSE /\ in_fence' = NewCleaner.in_fence
               /\ word_budget' = NewCleaner.word_budget
               /\ done' = NewCleaner.done
               /\ start' = now
               /\ http' = Streaming
               /\ pc' = GenEntry
    /\ UNCHANGED <<req, chat, emitted, now, raised, historyVars, stripVars,
                   pairVars>>

\* generator(): the first yield.
GenBranding ==
    /\ pc = "brand"
    /\ emitted' = Append(emitted, Branding)
    /\ pc' = "chat"
    /\ UNCHANGED <<req, http, chat, start, now, raised,
                   cleanerVars, historyVars, stripVars,
                   pairVars>>

\* generator(): _ollama_client.chat(...) returns the stream or raises.
GenChat ==
    /\ pc = "chat"
    /\ LET call == [model |-> BACKEND_MODEL,
                    messages |-> _messages(_stringify(req.data)),
                    stream |-> TRUE,
                    options |-> OrEmpty(req.options)]
       IN /\ chat' = Append(chat, call)
          /\ \/ /\ pc' = "stream"
                /\ UNCHANGED <<emitted, raised>>
             \/ \E msg \in ErrorMessages(call.model) :
                   /\ raised' = msg
                   /\ emitted' = Append(emitted, ErrorItem(msg))
                   /\ pc' = "end"
    /\ UNCHANGED <<req, http, start, now, cleanerVars, historyVars, stripVars,
                   pairVars>>

\* Faulty variant of AfterClean: the loop goes on whatever the cleaner says.
AfterCleanContinue(r) == "stream"

\* if cleaner.done: break -- where the generator goes after a clean call
\* with result r.
AfterClean(r) == IF r.done THEN "end" ELSE "stream"

\* One iteration of "for chunk in stream": a chunk has arrived.
GenChunk ==
    /\ pc = "stream"
    /\ Len(frags) < MaxChunks
    /\ \E chunk \in Chunks :
          IF TimedOut(start, now)
          THEN /\ emitted' = Append(emitted, TimeoutItem)
               /\ pc' = "end"
               /\ frags' = Append(frags, Token(chunk))
               /\ UNCHANGED <<cleanerVars, outs>>
          ELSE LET r == clean(Cleaner, Token(chunk))
               IN /\ in_fence' = r.in_fence
                  /\ word_budget' = r.word_budget
                  /\ done' = r.done
                  /\ frags' = Append(frags, Token(chunk))
                  /\ outs' = Append(outs, r.ret)
                  /\ emitted' = IF r.ret # <<>> THEN Append(emitted, r.ret)
                                ELSE emitted
                  /\ pc' = AfterClean(r)
    /\ UNCHANGED <<req, http, chat, start, now, raised, stripVars, pairVars>>

\* The stream is exhausted: the for loop ends.
GenStreamEnd ==
    /\ pc = "stream"
    /\ pc' = "end"
    /\ UNCHANGED <<req, http, chat, emitted, start, now, raised,
                   cleanerVars, historyVars, stripVars,
                   pairVars>>

\* Pulling the next chunk raises.
GenStreamError ==
    /\ pc = "stream"
    /\ \E msg \in ErrorMessages(BACKEND_MODEL) :
          /\ raised' = msg
          /\ emitted' = Append(emitted, ErrorItem(msg))
    /\ pc' = "end"
    /\ UNCHANGED <<req, http, chat, start, now, cleanerVars, historyVars, stripVars,
                   pairVars>>

\* The wall clock advances while the response is produced.
Tick ==
    /\ pc \in {"brand", "chat", "stream"}
    /\ now < MaxTime
    /\ now' = now + 1
    /\ UNCHANGED <<pc, req, http, chat, emitted, start, raised,
                   cleanerVars, historyVars, stripVars,
                   pairVars>>

Next ==
    \/ Validate \/ Analyze \/ GenBranding \/ GenChat
    \/ GenChunk \/ GenStreamEnd \/ GenStreamError \/ Tick

Spec == Init /\ [][Next]_vars

\* The budget is what is left of MAX_WORDS_OUT after the words returned.
BudgetLeft ==
    /\ word_budget >= 0
    /\ word_budget = MAX_WORDS_OUT - WordsUpTo(outs, Len(outs))

\* A clean call lowers the budget by the number of words it returns.
BudgetStep ==
    Len(outs') = Len(outs) + 1
    => /\ word_budget' = word_budget - Len(Split(outs'[Len(outs')]))
       /\ word_budget' <= word_budget

\* C14: word_budget is never negative and always equals MAX_WORDS_OUT minus
\* the number of words returned so far; every clean call lowers it by
\* exactly the number of words it returns and never raises it.
C14_Budget == []BudgetLeft /\ [][BudgetStep]_vars

\* Two calls each returned one word and the budget is used up.
C14_Witness ==
    /\ Len(outs) = 2
    /\ Len(Split(outs[1])) = 1 /\ Len(Split(outs[2])) = 1
    /\ word_budget = 0 /\ ~done

\* word_budget after the i-th clean call.
BudgetAfter(i) == MAX_WORDS_OUT - WordsUpTo(outs, i)

\* C15: every non-empty string returned by clean is its words joined by
\* single spaces, followed by exactly one space unless that call leaves
\* word_budget at 0 (the fragment had more words than the remaining budget,
\* or exactly as many), in which case no space follows.
C15_TrailingSpace ==
    \A i \in 1..Len(outs) :
        outs[i] # <<>>
        => outs[i] = Join(Split(outs[i]))
                       \o (IF BudgetAfter(i) = 0 THEN <<>> ELSE <<" ">>)

\* A clean call that reaches the fence loop toggles in_fence once for each
\* marker of its own fragment; a fragment without a whole marker, cleaned
\* outside a fence, passes its words on, backticks included.
FenceStep ==
    (/\ Len(frags') = Len(frags) + 1
     /\ ~done
     /\ frags'[Len(frags')] # <<>>)
    => LET f == frags'[Len(frags')]
           n == Cardinality(MarkerStarts(f, 1))
       IN /\ in_fence' = (IF n % 2 = 1 THEN ~in_fence ELSE in_fence)
          /\ (n = 0 /\ ~in_fence /\ word_budget > 0)
             => Split(outs'[Len(outs')]) = Take(Split(f), word_budget)

Requests == {1, 2}

PairTokens == {<<"x", " ", "x", " ", "x">>, _CODE_FENCE_TOK}

Ev(kind, tok, at, msg) == [kind |-> kind, token |-> tok, at |-> at, msg |-> msg]

NoReq == [pc |-> "none", cleaner |-> 0, start |-> 0, log |-> <<>>, emitted |-> <<>>]

ChunksOf(log) == Cardinality({i \in 1..Len(log) : log[i].kind = "chunk"})

\* Faulty variant of CleanerOf: one cleaner, at module level, for all requests.
SharedCleaner(r) == 1

\* cleaner = StreamCleaner(): the cleaner of request r is an object made by
\* r's own call of analyze.
CleanerOf(r) == r

PairInit ==
    /\ reqs = [r \in Requests |-> NoReq]
    /\ cleaners = EmptyDict
    /\ pc = "none" /\ req = <<>> /\ http = <<>> /\ chat = <<>>
    /\ emitted = <<>> /\ start = 0 /\ now = 0 /\ raised = <<>>
    /\ IdleCleaner /\ IdleStrip

PairRest == <<pc, req, http, chat, emitted, start, raised,
              cleanerVars, historyVars, stripVars>>

\* analyze for an accepted request r: its cleaner and its start time.
PairAnalyze(r) ==
    /\ reqs[r].pc = "none"
    /\ cleaners' = (CleanerOf(r) :> NewCleaner) @@ cleaners
    /\ reqs' = [reqs EXCEPT ![r] =
                  [pc |-> GenEntry, cleaner |-> CleanerOf(r), start |-> now,
                   log |-> <<Ev("start", <<>>, now, <<>>)>>, emitted |-> <<>>]]
    /\ UNCHANGED <<now, PairRest>>

\* r's generator yields the branding line.
PairBranding(r) ==
    /\ reqs[r].pc = "brand"
    /\ reqs' = [reqs EXCEPT ![r].pc = "chat",
                            ![r].emitted = Append(@, Branding),
                            ![r].log = Append(@, Ev("brand", <<>>, 0, <<>>))]
    /\ UNCHANGED <<cleaners, now, PairRest>>

\* r's generator opens the generation call on the shared client.
PairChat(r) ==
    /\ reqs[r].pc = "chat"
    /\ reqs' = [reqs EXCEPT ![r].pc = "stream",
                            ![r].log = Append(@, Ev("chat", <<>>, 0, <<>>))]
    /\ UNCHANGED <<cleaners, now, PairRest>>

\* A chunk of r's stream arrives.
PairChunk(r) ==
    /\ reqs[r].pc = "stream"
    /\ ChunksOf(reqs[r].log) < MaxPairChunks
    /\ \E tok \in PairTokens :
          LET chunk == [message |-> [content |-> tok]]
              ev == Ev("chunk", Token(chunk), now, <<>>)
          IN IF TimedOut(reqs[r].start, now)
             THEN /\ reqs' = [reqs EXCEPT ![r].pc = "end",
                                 ![r].emitted = Append(@, TimeoutItem),
                                 ![r].log = Append(@, ev)]
                  /\ UNCHANGED cleaners
             ELSE LET c == reqs[r].cleaner
                      res == clean(cleaners[c], Token(chunk))
                  IN /\ cleaners' = [cleaners EXCEPT ![c] =
                                       [in_fence |-> res.in_fence,
                                        word_budget |-> res.word_budget,
                                        done |-> res.done]]
                     /\ reqs' = [reqs EXCEPT
                                   ![r].pc = AfterClean(res),
                                   ![r].emitted = IF res.ret # <<>>
                                                  THEN Append(@, res.ret) ELSE @,
                                   ![r].log = Append(@, ev)]
    /\ UNCHANGED <<now, PairRest>>

\* r's stream is exhausted.
PairStreamEnd(r) ==
    /\ reqs[r].pc = "stream"
    /\ reqs' = [reqs EXCEPT ![r].pc = "end",
                            ![r].log = Append(@, Ev("end", <<>>, 0, <<>>))]
    /\ UNCHANGED <<cleaners, now, PairRest>>

\* Pulling r's next chunk raises.
PairStreamError(r) ==
    /\ reqs[r].pc = "stream"
    /\ \E msg \in {<<"connection refused">>} :
          reqs' = [reqs EXCEPT ![r].pc = "end",
                               ![r].emitted = Append(@, ErrorItem(msg)),
                               ![r].log = Append(@, Ev("error", <<>>, 0, msg))]
    /\ UNCHANGED <<cleaners, now, PairRest>>

\* The wall clock advances while a request is served.
PairTick ==
    /\ \E r \in Requests : reqs[r].pc \notin {"none", "end"}
    /\ now < MaxPairTime
    /\ now' = now + 1
    /\ UNCHANGED <<reqs, cleaners, PairRest>>

PairNext ==
    \/ \E r \in Requests :
          \/ PairAnalyze(r) \/ PairBranding(r) \/ PairChat(r)
          \/ PairChunk(r) \/ PairStreamEnd(r) \/ PairStreamError(r)
    \/ PairTick

SpecPair == PairInit /\ [][PairNext]_vars

\* ---- Property of SpecPair ----

\* What a request whose log is the first n events of log has emitted, and
\* the state of its cleaner, when it is served alone: the events applied in
\* order to a cleaner of its own.
RECURSIVE Alone(_, _)
Alone(log, n) ==
    IF n <= 1 THEN [cl |-> NewCleaner, em |-> <<>>]
    ELSE LET a == Alone(log, n - 1)
             e == log[n]
             r == clean(a.cl, e.token)
         IN IF e.kind = "brand"
            THEN [cl |-> a.cl, em |-> Append(a.em, <<"MODEL: ", DISPLAY_NAME, "\n\n">>)]
            ELSE IF e.kind = "error"
            THEN [cl |-> a.cl, em |-> Append(a.em, <<"\n[STREAM ERROR] ">> \o e.msg)]
            ELSE IF e.kind = "chunk" /\ e.at - log[1].at > STREAM_TIMEOUT_S
            THEN [cl |-> a.cl, em |-> Append(a.em, <<"\n[STREAM ERROR] timeout\n">>)]
            ELSE IF e.kind = "chunk"
            THEN [cl |-> [in_fence |-> r.in_fence, word_budget |-> r.word_budget,
                          done |-> r.done],
                  em |-> IF r.ret # <<>> THEN Append(a.em, r.ret) ELSE a.em]
            ELSE a

Served == {r \in Requests : reqs[r].pc # "none"}

\* Every served request has emitted what it emits alone, its cleaner is in
\* the state it has alone, and its start time is its own.
PairAlone ==
    \A r \in Served :
        LET a == Alone(reqs[r].log, Len(reqs[r].log))
        IN /\ reqs[r].emitted = a.em
           /\ cleaners[reqs[r].cleaner] = a.cl
           /\ reqs[r].start = reqs[r].log[1].at
           /\ \A q \in Served \ {r} : reqs[q].cleaner # reqs[r].cleaner

\* A step in which request r does nothing leaves r's cleaner as it is.
PairApart ==
    \A r \in Served :
        reqs'[r] = reqs[r]
        => cleaners'[reqs[r].cleaner] = cleaners[reqs[r].cleaner]

\* C11: in every interleaving of two concurrent requests each request has
\* its own cleaner and start time, no step of one changes in_fence,
\* word_budget or done of the other, and each emits the stream it emits when
\* served alone on the same fragments.
C11_Isolation == []PairAlone /\ [][PairApart]_vars

\* Request 2 started later than request 1 and its chunk arrived between two
\* chunks of request 1; request 1 is inside a fence with its word suppressed,
\* request 2 has emitted its word.
C11_Witness ==
    /\ reqs[1].pc = "end" /\ reqs[2].pc = "end"
    /\ reqs[1].start = 0 /\ reqs[2].start = 1
    /\ \E i, j \in 1..Len(reqs[1].log) : \E k \in 1..Len(reqs[2].log) :
          /\ i < j
          /\ reqs[1].log[i].kind = "chunk" /\ reqs[1].log[i].at = 0
          /\ reqs[1].log[i].token = _CODE_FENCE_TOK
          /\ reqs[2].log[k].kind = "chunk" /\ reqs[2].log[k].at = 1
          /\ reqs[2].log[k].token = <<"x", " ", "x", " ", "x">>
          /\ reqs[1].log[j].kind = "chunk" /\ reqs[1].log[j].at = 2
          /\ reqs[1].log[j].token = <<"x", " ", "x", " ", "x">>
    /\ cleaners[reqs[1].cleaner].in_fence /\ ~cleaners[reqs[2].cleaner].in_fence
    /\ Len(reqs[1].emitted) = 1 /\ Len(reqs[2].emitted) = 2


(***************************************************************************)
(* SpecStrip: the three rewrites of clean applied to a text, and again to  *)
(* their own result.                                                       *)
(***************************************************************************)
StripAlphabet == {"a", " ", "\n", "#", "-", "[", "]", "(", ")", "1", "."}

StripInit ==
    /\ text \in TextsUpTo(StripAlphabet, MaxStripLen)
    /\ passes = <<>>
    /\ IdleCleaner /\ IdleHandler /\ IdlePair

\* One more application of the rewrites, to the text or to the last result.
ApplyStrip ==
    /\ Len(passes) < 2
    /\ passes' = Append(passes, Strip(IF passes = <<>> THEN text
                                      ELSE passes[Len(passes)]))
    /\ UNCHANGED <<text, cleanerVars, historyVars, handlerVars, pairVars>>

StripNext == ApplyStrip

SpecStrip == StripInit /\ [][StripNext]_vars

(***************************************************************************)
(* SpecLines: the rewrites applied to texts of several lines, with         *)
(* indented and unindented heading and list markers.                       *)
(***************************************************************************)
LineAlphabet == {"a", " ", "\n", "-", "#"}

LinesInit ==
    /\ text \in TextsUpTo(LineAlphabet, MaxLineLen)
    /\ passes = <<>>
    /\ IdleCleaner /\ IdleHandler /\ IdlePair

SpecLines == LinesInit /\ [][StripNext]_vars

\* ---- Properties of Spec ----

\* C2: a request whose stringified data is longer than MAX_BYTES in UTF-8 is
\* answered by the handler with HTTP 413, the detail naming the size and the
\* limit, and no generation call and no stream item is ever made for it.
C2_Oversize ==
    (pc # "none" /\ ByteSize(_stringify(req.data)) > MAX_BYTES)
    => /\ chat = <<>> /\ emitted = <<>>
       /\ pc \in {"validated", "end"}
       /\ pc = "end" =>
            /\ http.status = 413
            /\ http.detail =
                 <<"payload too large: ">>
                 \o Str(ByteSize(_stringify(req.data)))
                 \o <<" bytes > limit ">> \o Str(MAX_BYTES) \o <<" bytes">>

\* A string of fewer characters than MAX_BYTES + 1 but more bytes has been
\* rejected.
C2_Witness ==
    /\ pc = "end" /\ http.status = 413
    /\ req.data.is_str /\ Len(req.data.value) <= MAX_BYTES
    /\ ByteSize(req.data.value) > MAX_BYTES

\* C4: the first item of the response stream is the branding line; it is
\* emitted before the generation call is opened, and it is there whether
\* generation succeeds, fails or times out.
C4_BrandingFirst ==
    /\ emitted # <<>> => emitted[1] = <<"MODEL: ", DISPLAY_NAME, "\n\n">>
    /\ chat # <<>> => emitted # <<>>
    /\ (pc = "end" /\ http.status = 200) => emitted # <<>>

\* Generation failed when the call was opened; the branding line was emitted
\* before that.
C4_Witness ==
    /\ pc = "end" /\ http.status = 200 /\ raised # <<>>
    /\ Len(chat) = 1 /\ frags = <<>>
    /\ Len(emitted) = 2 /\ emitted[1] = <<"MODEL: ", DISPLAY_NAME, "\n\n">>

\* C5: when the generation client raises, the last item of the stream is
\* "\n[STREAM ERROR] <message>\n" and the stream has ended.
C5_ErrorItem ==
    raised # <<>>
    => /\ pc = "end"
       /\ emitted[Len(emitted)] = <<"\n[STREAM ERROR] ">> \o raised \o <<"\n">>

\* C6: a fragment arriving more than STREAM_TIMEOUT_S after the start makes
\* the handler emit the timeout marker without a clean call and end the
\* stream; after the end nothing is pulled or emitted; a timeout marker is
\* emitted only in a step in which a fragment arrives.
C6_Timeout ==
    [][/\ (Len(frags') = Len(frags) + 1 /\ now - start > STREAM_TIMEOUT_S)
          => /\ emitted' = Append(emitted, <<"\n[STREAM ERROR] timeout\n">>)
             /\ outs' = outs
             /\ UNCHANGED cleanerVars
             /\ pc' = "end"
       /\ pc = "end" => UNCHANGED <<frags, outs, emitted, pc>>
       /\ (/\ Len(emitted') > Len(emitted)
           /\ emitted'[Len(emitted')] = <<"\n[STREAM ERROR] timeout\n">>)
          => Len(frags') = Len(frags) + 1
      ]_vars

\* A fragment was cleaned and emitted in time, a later one arrived too late:
\* the stream ended with the timeout marker and one clean call fewer than
\* fragments.
C6_Witness ==
    /\ pc = "end" /\ now - start > STREAM_TIMEOUT_S
    /\ Len(frags) = 2 /\ Len(outs) = 1 /\ outs[1] # <<>>
    /\ Len(emitted) = 3
    /\ emitted[3] = <<"\n[STREAM ERROR] timeout\n">>

\* C7: no header and no stream item sent to the caller contains
\* BACKEND_MODEL.
C7_NoBackendName ==
    /\ \A i \in 1..Len(emitted) : BACKEND_MODEL \notin Chars(emitted[i])
    /\ \A i \in 1..Len(http.headers) : http.headers[i][2] # BACKEND_MODEL
    /\ BACKEND_MODEL \notin Chars(http.detail)

OptionKeys == {"temperature", "top_p", "repeat_penalty", "num_predict"}

\* The value the caller sent for option k, or the default.
Wanted(body, k) ==
    IF body.has_options /\ k \in DOMAIN body.options
    THEN body.options[k] ELSE DEFAULT_OPTIONS[k]

\* C10: the options of the generation call have the four keys, each with
\* the caller's value or else the default, num_predict at most 1024,
\* whether or not the body has options.
C10_Options ==
    \A i \in 1..Len(chat) :
        /\ OptionKeys \subseteq DOMAIN chat[i].options
        /\ \A k \in OptionKeys \ {"num_predict"} :
              chat[i].options[k] = Wanted(req.body, k)
        /\ chat[i].options["num_predict"]
              = Min(Wanted(req.body, "num_predict"), 1024)

\* ---- Property of SpecStrip ----

\* C9: the rewrites are idempotent: applied to their own result they change
\* nothing.
C9_Idempotent == Len(passes) = 2 => passes[2] = passes[1]

\* ---- Property of SpecLines ----

\* The lines of a text, each with the newline that ends it.
RECURSIVE LinesFrom(_, _)
LinesFrom(t, p) ==
    IF p > Len(t) THEN <<>>
    ELSE LET e == SpanEndNot(t, p, {"\n"})
         IN <<SubSeq(t, p, Min(e, Len(t)))>> \o LinesFrom(t, e + 1)

\* The words left of each line when the rewrites are applied to that line
\* alone, in the order of the lines.
RECURSIVE LineWords(_)
LineWords(ls) ==
    IF ls = <<>> THEN <<>>
    ELSE Split(Strip(Head(ls))) \o LineWords(Tail(ls))

\* C12: on the text retained after fence removal clean replaces every link
\* by its label, then removes the heading marker and the whitespace after it
\* at the start of every line, then the list marker at the start of every
\* line, and leaves all other text unchanged before splitting into words.
\* On texts without links: every line is rewritten as it is when it is the
\* whole text, so the words returned are those of the rewritten lines.
C12_EveryLine ==
    Len(passes) >= 1 => Split(passes[1]) = LineWords(LinesFrom(text, 1))

\* The step whose clean call sets done emits that call's string if it is not
\* empty, emits nothing else and ends the generator; once done, no fragment
\* is pulled and nothing is emitted.
DoneStep ==
    /\ (~done /\ done')
       => /\ pc' = "end"
          /\ raised' = raised
          /\ emitted' = IF outs'[Len(outs')] # <<>>
                        THEN Append(emitted, outs'[Len(outs')])
                        ELSE emitted
    /\ done => UNCHANGED <<pc, frags, outs, emitted, raised>>

\* C17: the handler stops consuming the generation stream as soon as its
\* cleaner is done: it emits the string of the clean call that set done (if
\* not empty), pulls no further fragment, emits no timeout or error marker
\* and ends the stream.
C17_StopWhenDone == [](done => pc = "end") /\ [][DoneStep]_vars

\* The stream ended on the clean call that set done, its string was the last
\* item emitted, and more chunks could still have been pulled.
C17_Witness ==
    /\ pc = "end" /\ done /\ raised = <<>>
    /\ Len(frags) = Len(outs) /\ Len(frags) < MaxChunks
    /\ outs[Len(outs)] # <<>>
    /\ emitted[Len(emitted)] = outs[Len(outs)]

====
